---- MODULE Spec2Model ----
(***************************************************************************)
(* Model of package fsync (src/fsync.go): Sync / SyncDel make a            *)
(* destination file or directory a copy of a source one.                   *)
(*                                                                         *)
(* The filesystem is a function from absolute paths to entries.  A call    *)
(* is evaluated as the code runs it: every os/ioutil/io call is one        *)
(* numbered operation that may fail, check()/panic() set the error of the  *)
(* running evaluation, and a deferred call runs while the panic unwinds.   *)
(***************************************************************************)
EXTENDS Integers, Sequences, FiniteSets, TLC

VARIABLES fs, pre, res, log, del, flt, reads, prevRes, prevDel, eqval

vars == <<fs, pre, res, log, del, flt, reads, prevRes, prevDel, eqval>>

-----------------------------------------------------------------------------
(* Program constants *)

\* buf1 := make([]byte, 1000)
BufSize == 1000

\* os.MkdirAll(dst, 0755)
TmpDirPerm == 493

\* os.Create opens with mode 0666
CreatePerm == 438

\* errors.New("fsync: trying to overwrite a non-empty directory with a file")
ErrFileOverDir == "ErrFileOverDir"

-----------------------------------------------------------------------------
(* Bounds of the explored filesystems *)

\* longest file content compared by equal, in bytes
MaxLen == 2001

\* number of operations from the first failing one that a fault may last:
\* 1 is a transient failure of one operation
MaxBurst == 1

DstRoot == <<"dst">>
SrcRoot == <<"src">>

\* relative paths of the explored trees
RelPaths == {<< >>, <<"a">>, <<"b">>, <<"a", "c">>}

AllPaths == {DstRoot \o p : p \in RelPaths} \cup {SrcRoot \o p : p \in RelPaths}

\* directory listings are sorted by file name
NameOrder == <<"a", "b", "c">>

\* permission bits of the entries of the initial trees
Perms == {448, TmpDirPerm}

\* file contents of the initial trees
Datas == {<<1>>, <<2>>}

None == [kind |-> "none", data |-> << >>, perm |-> 0]

File(d, m) == [kind |-> "file", data |-> d, perm |-> m]

Dir(m) == [kind |-> "dir", data |-> << >>, perm |-> m]

Min(x, y) == IF x < y THEN x ELSE y

IsPrefix(p, q) == Len(p) <= Len(q) /\ SubSeq(q, 1, Len(p)) = p

\* names of the entries of directory p, as a set
Names(f, p) ==
    {q[Len(q)] : q \in {x \in AllPaths : Len(x) = Len(p) + 1 /\ IsPrefix(p, x)
                                          /\ f[x].kind # "none"}}

\* the listing of p in the order ioutil.ReadDir returns it
Listing(f, p) == SelectSeq(NameOrder, LAMBDA n : n \in Names(f, p))

\* path.Join(dir, name)
Join(p, n) == Append(p, n)

Mutations == {"RemoveAll", "Remove", "Mkdir", "Create", "Write", "Chmod"}

-----------------------------------------------------------------------------
(* The evaluation state threaded through a call:                           *)
(*   f    the filesystem                                                    *)
(*   n    operations issued so far                                          *)
(*   err  "ok", or the error value of the panic in flight                   *)
(*   lg   the mutations applied and the failures raised, in order           *)
(*   ft   the fault: operations ft.at .. ft.at + ft.len - 1 fail            *)
(*   rd   number of Read calls issued                                       *)
(***************************************************************************)

NoFault == [at |-> 0, len |-> 0]

Start(f, ft) == [f |-> f, n |-> 0, err |-> "ok", lg |-> << >>, ft |-> ft, rd |-> 0]

\* the next operation is hit by the fault
Fails(st) == st.ft.at # 0 /\ st.n + 1 >= st.ft.at /\ st.n + 1 < st.ft.at + st.ft.len

Tick(st) == [st EXCEPT !.n = @ + 1]

\* panic(err)
Raise(st, e, p) ==
    [st EXCEPT !.err = e, !.lg = Append(@, [op |-> "FAIL", path |-> p])]

Event(st, o, p) == [st EXCEPT !.lg = Append(@, [op |-> o, path |-> p])]

\* os.Stat: "ok", "ENOENT" or "EIO"
StatErr(st, p) ==
    IF Fails(st) THEN "EIO"
    ELSE IF st.f[p].kind = "none" THEN "ENOENT" ELSE "ok"

\* an operation that only reads: fails or leaves the filesystem alone
ReadOp(st, p) ==
    IF st.err # "ok" THEN st
    ELSE IF Fails(st) THEN Raise(Tick(st), "EIO", p)
    ELSE Tick(st)

\* variant: os.Remove in place of os.RemoveAll, which refuses a non-empty directory
RemoveAll_flat(st, p) ==
    IF st.err # "ok" THEN st
    ELSE IF Fails(st) THEN Raise(Tick(st), "EIO", p)
    ELSE IF Names(st.f, p) # {} THEN Raise(Tick(st), "ENOTEMPTY", p)
    ELSE Event([Tick(st) EXCEPT !.f[p] = None], "RemoveAll", p)

\* os.RemoveAll(p): removes p and everything below it; nil when p is missing
RemoveAll(st, p) ==
    IF st.err # "ok" THEN st
    ELSE IF Fails(st) THEN Raise(Tick(st), "EIO", p)
    ELSE Event([Tick(st) EXCEPT
                  !.f = [q \in AllPaths |-> IF IsPrefix(p, q) THEN None ELSE st.f[q]]],
               "RemoveAll", p)

\* os.Remove(p): removes a file or an empty directory
Remove(st, p) ==
    IF st.err # "ok" THEN st
    ELSE IF Fails(st) THEN Raise(Tick(st), "EIO", p)
    ELSE IF st.f[p].kind = "none" THEN Raise(Tick(st), "ENOENT", p)
    ELSE IF Names(st.f, p) # {} THEN Raise(Tick(st), "ENOTEMPTY", p)
    ELSE Event([Tick(st) EXCEPT !.f[p] = None], "Remove", p)

\* os.MkdirAll(p, perm): nil when p is already a directory
MkdirAll(st, p, m) ==
    IF st.err # "ok" THEN st
    ELSE IF Fails(st) THEN Raise(Tick(st), "EIO", p)
    ELSE IF st.f[p].kind = "dir" THEN Tick(st)
    ELSE IF st.f[p].kind = "file" THEN Raise(Tick(st), "ENOTDIR", p)
    ELSE Event([Tick(st) EXCEPT !.f[p] = Dir(m)], "Mkdir", p)

\* os.Create(p): creates the file with mode 0666 or truncates it
Create(st, p) ==
    IF st.err # "ok" THEN st
    ELSE IF Fails(st) THEN Raise(Tick(st), "EIO", p)
    ELSE IF st.f[p].kind = "dir" THEN Raise(Tick(st), "EISDIR", p)
    ELSE Event([Tick(st) EXCEPT
                  !.f[p] = IF st.f[p].kind = "file" THEN File(<< >>, st.f[p].perm)
                           ELSE File(<< >>, CreatePerm)],
               "Create", p)

\* os.Open(p)
Open(st, p) ==
    IF st.err # "ok" THEN st
    ELSE IF Fails(st) THEN Raise(Tick(st), "EIO", p)
    ELSE IF st.f[p].kind = "none" THEN Raise(Tick(st), "ENOENT", p)
    ELSE Tick(st)

\* io.Copy(df, sf): a failed copy leaves the created file empty
Copy(st, d, s) ==
    IF st.err # "ok" THEN st
    ELSE IF Fails(st) THEN Raise(Tick(st), "EIO", d)
    ELSE Event([Tick(st) EXCEPT !.f[d].data = st.f[s].data], "Write", d)

\* os.Chmod(p, m)
Chmod(st, p, m) ==
    IF st.err # "ok" THEN st
    ELSE IF Fails(st) THEN Raise(Tick(st), "EIO", p)
    ELSE Event([Tick(st) EXCEPT !.f[p].perm = m], "Chmod", p)

-----------------------------------------------------------------------------
(* equal: the comparison of two files *)

\* f.Read(buf): one operation, counted
Read(st, p) ==
    IF st.err # "ok" THEN st
    ELSE IF Fails(st) THEN Raise([Tick(st) EXCEPT !.rd = @ + 1], "EIO", p)
    ELSE [Tick(st) EXCEPT !.rd = @ + 1]

\* the bytes a Read at offset off returns
Chunk(d, off) == SubSeq(d, off + 1, Min(Len(d), off + BufSize))

\* variant: the loop stops after the first pair of chunks
equalLoop_firstChunk(st, a, b, o1, o2) ==
    LET s1 == Read(st, a)
        c1 == Chunk(st.f[a].data, o1)
        s2 == Read(s1, b)
        c2 == Chunk(st.f[b].data, o2)
    IN  IF s2.err # "ok" THEN [st |-> s2, val |-> FALSE]
        ELSE [st |-> s2, val |-> c1 = c2]

\* the for loop of equal; o1, o2 are the offsets of f1 and f2
RECURSIVE equalLoop(_, _, _, _, _)
equalLoop(st, a, b, o1, o2) ==
    LET s1 == Read(st, a)
        c1 == Chunk(st.f[a].data, o1)
        s2 == Read(s1, b)
        c2 == Chunk(st.f[b].data, o2)
    IN  IF s2.err # "ok" THEN [st |-> s2, val |-> FALSE]
        ELSE IF c1 # c2 THEN [st |-> s2, val |-> FALSE]
        ELSE IF Len(c1) = 0 /\ Len(c2) = 0 THEN [st |-> s2, val |-> TRUE]
        ELSE equalLoop(s2, a, b, o1 + Len(c1), o2 + Len(c2))

\* equal returns true if both files are equal
equal(st, a, b) ==
    LET err1 == StatErr(st, a)
        s1   == Tick(st)
        err2 == StatErr(s1, b)
        s2   == Tick(s1)
    IN  IF err1 = "ENOENT" \/ err2 = "ENOENT" THEN [st |-> s2, val |-> FALSE]
        ELSE IF err1 # "ok" THEN [st |-> Raise(s2, err1, a), val |-> FALSE]
        ELSE IF err2 # "ok" THEN [st |-> Raise(s2, err2, b), val |-> FALSE]
        ELSE IF Len(st.f[a].data) # Len(st.f[b].data) THEN [st |-> s2, val |-> FALSE]
        ELSE LET s3 == Open(s2, a)
                 s4 == Open(s3, b)
             IN  IF s4.err # "ok" THEN [st |-> s4, val |-> FALSE]
                 ELSE equalLoop(s4, a, b, 0, 0)

-----------------------------------------------------------------------------
(* syncperms, sync, checkDir *)

\* variant: chmod without comparing the permission bits first
syncperms_always(st, dst, src) ==
    LET err1 == StatErr(st, dst)
        s1   == Tick(st)
        err2 == StatErr(s1, src)
        s2   == Tick(s1)
    IN  IF err1 = "ENOENT" \/ err2 = "ENOENT" THEN s2
        ELSE IF err1 # "ok" THEN Raise(s2, err1, dst)
        ELSE IF err2 # "ok" THEN Raise(s2, err2, src)
        ELSE Chmod(s2, dst, s2.f[src].perm)

\* variant: the arguments of the chmod swapped
syncperms_swapped(st, dst, src) ==
    LET err1 == StatErr(st, dst)
        s1   == Tick(st)
        err2 == StatErr(s1, src)
        s2   == Tick(s1)
    IN  IF err1 = "ENOENT" \/ err2 = "ENOENT" THEN s2
        ELSE IF err1 # "ok" THEN Raise(s2, err1, dst)
        ELSE IF err2 # "ok" THEN Raise(s2, err2, src)
        ELSE IF s2.f[dst].perm = s2.f[src].perm THEN s2
        ELSE Chmod(s2, src, s2.f[dst].perm)

\* syncperms makes sure dst has the same permissions as src
syncperms(st, dst, src) ==
    LET err1 == StatErr(st, dst)
        s1   == Tick(st)
        err2 == StatErr(s1, src)
        s2   == Tick(s1)
    IN  IF err1 = "ENOENT" \/ err2 = "ENOENT" THEN s2
        ELSE IF err1 # "ok" THEN Raise(s2, err1, dst)
        ELSE IF err2 # "ok" THEN Raise(s2, err2, src)
        ELSE IF s2.f[dst].perm = s2.f[src].perm THEN s2
        ELSE Chmod(s2, dst, s2.f[src].perm)

\* variant: the deferred call left out
deferSyncperms_skip(st, dst, src) == st

\* defer syncperms(dst, src): runs when sync returns and when it panics; a
\* panic of the deferred call replaces the one in flight
deferSyncperms(st, dst, src) ==
    LET r == syncperms([st EXCEPT !.err = "ok"], dst, src)
    IN  IF r.err # "ok" THEN r ELSE [r EXCEPT !.err = st.err]

\* src is a file: delete dst if it is a directory, copy unless equal
syncFile(st, d, dst, src) ==
    LET s3 == IF d.kind = "dir" THEN RemoveAll(st, dst) ELSE st
        e  == equal(s3, dst, src)
    IN  IF s3.err # "ok" THEN s3
        ELSE IF e.st.err # "ok" \/ e.val THEN e.st
        ELSE Copy(Open(Create(e.st, dst), src), dst, src)

\* src is a directory: make dst if necessary
makeDst(st, d, dst) ==
    IF d.kind = "none" THEN MkdirAll(st, dst, TmpDirPerm)
    ELSE IF d.kind # "dir" THEN MkdirAll(Remove(st, dst), dst, TmpDirPerm)
    ELSE st

\* variant: the deletion loop left out
removeExtra_none(st, dst, files, m) == st

\* delete files from dst that do not exist in src
RECURSIVE removeExtra(_, _, _, _)
removeExtra(st, dst, files, m) ==
    IF st.err # "ok" \/ files = << >> THEN st
    ELSE removeExtra(IF Head(files) \notin m
                     THEN RemoveAll(st, Join(dst, Head(files))) ELSE st,
                     dst, Tail(files), m)

RECURSIVE sync(_, _, _, _)
RECURSIVE syncChildren(_, _, _, _, _)

\* go through the files of src and sync them
syncChildren(st, dl, dst, src, files) ==
    IF st.err # "ok" \/ files = << >> THEN st
    ELSE syncChildren(sync(st, dl, Join(dst, Head(files)), Join(src, Head(files))),
                      dl, dst, src, Tail(files))

\* src is a directory
syncDir(st, dl, d, dst, src) ==
    LET s3 == makeDst(st, d, dst)
        s4 == ReadOp(s3, src)
        files == Listing(s3.f, src)
        m  == {files[i] : i \in 1..Len(files)}
        s5 == syncChildren(s4, dl, dst, src, files)
        s6 == ReadOp(s5, dst)
    IN  IF s5.err # "ok" \/ ~dl THEN s5
        ELSE removeExtra(s6, dst, Listing(s5.f, dst), m)

\* the body of sync, up to its return or panic
syncBody(st, dl, dst, src) ==
    LET errd == StatErr(st, dst)
        s1   == Tick(st)
        errs == StatErr(s1, src)
        s2   == Tick(s1)
    IN  IF errd \notin {"ok", "ENOENT"} THEN Raise(s1, errd, dst)
        ELSE IF errs # "ok" THEN Raise(s2, errs, src)
        ELSE IF st.f[src].kind # "dir" THEN syncFile(s2, st.f[dst], dst, src)
        ELSE syncDir(s2, dl, st.f[dst], dst, src)

\* sync updates dst to match with src, handling both files and directories
sync(st, dl, dst, src) == deferSyncperms(syncBody(st, dl, dst, src), dst, src)

\* syncRecover handles errors and calls sync
syncRecover(st, dl, dst, src) == sync(st, dl, dst, src)

\* variant: the listing of dst is not looked at
checkDir_noListing(st, dst, src) ==
    LET errd == StatErr(st, dst)
        s1   == Tick(st)
        errs == StatErr(s1, src)
        s2   == Tick(s1)
    IN  IF errd = "ENOENT" THEN [st |-> s1, b |-> FALSE]
        ELSE IF errd # "ok" THEN [st |-> Raise(s1, errd, dst), b |-> FALSE]
        ELSE IF errs # "ok" THEN [st |-> Raise(s2, errs, src), b |-> FALSE]
        ELSE [st |-> s2, b |-> FALSE]

\* checkDir returns true if dst is a non-empty directory and src is a file
checkDir(st, dst, src) ==
    LET errd == StatErr(st, dst)
        s1   == Tick(st)
        errs == StatErr(s1, src)
        s2   == Tick(s1)
        s3   == ReadOp(s2, dst)
    IN  IF errd = "ENOENT" THEN [st |-> s1, b |-> FALSE]
        ELSE IF errd # "ok" THEN [st |-> Raise(s1, errd, dst), b |-> FALSE]
        ELSE IF errs # "ok" THEN [st |-> Raise(s2, errs, src), b |-> FALSE]
        ELSE IF st.f[dst].kind # "dir" \/ st.f[src].kind = "dir"
             THEN [st |-> s2, b |-> FALSE]
        ELSE IF s3.err # "ok" THEN [st |-> s3, b |-> FALSE]
        ELSE [st |-> s3, b |-> Len(Listing(st.f, dst)) > 0]

\* variant: Sync runs in deletion mode
Sync_asDel(st, dst, src) ==
    LET c == checkDir(st, dst, src)
    IN  IF c.st.err # "ok" THEN c.st
        ELSE IF c.b THEN [c.st EXCEPT !.err = ErrFileOverDir]
        ELSE syncRecover(c.st, TRUE, dst, src)

\* Sync copies files and directories inside src into dst
Sync(st, dst, src) ==
    LET c == checkDir(st, dst, src)
    IN  IF c.st.err # "ok" THEN c.st
        ELSE IF c.b THEN [c.st EXCEPT !.err = ErrFileOverDir]
        ELSE syncRecover(c.st, FALSE, dst, src)

\* variant: SyncDel without the guard
SyncDel_noGuard(st, dst, src) == syncRecover(st, TRUE, dst, src)

\* SyncDel makes sure dst is a copy of src
SyncDel(st, dst, src) ==
    LET c == checkDir(st, dst, src)
    IN  IF c.st.err # "ok" THEN c.st
        ELSE IF c.b THEN [c.st EXCEPT !.err = ErrFileOverDir]
        ELSE syncRecover(c.st, TRUE, dst, src)

-----------------------------------------------------------------------------
(* The explored filesystems *)

FileEntries == {File(d, m) : d \in Datas, m \in Perms}

DirEntries == {Dir(m) : m \in Perms}

\* entries tried at a/c and at b
LeafEntries == {None, File(<<1>>, 448), Dir(448)}

SideEntries == {None, File(<<1>>, 448), File(<<1, 2>>, TmpDirPerm)}

MidEntries == {None} \cup FileEntries \cup DirEntries

\* the trees below root r: an entry exists only inside a directory
Trees(r) ==
    {[p \in {r \o q : q \in RelPaths} |->
         IF p = r THEN t[1] ELSE IF p = r \o <<"a">> THEN t[2]
         ELSE IF p = r \o <<"b">> THEN t[3] ELSE t[4]] :
       t \in {x \in MidEntries \X MidEntries \X SideEntries \X LeafEntries :
                /\ x[1].kind # "dir" => x[2] = None /\ x[3] = None
                /\ x[2].kind # "dir" => x[4] = None}}

\* the faults tried on a call that issues n operations when nothing fails
Faults(n) == {NoFault} \cup {[at |-> k, len |-> l] : k \in 1..n, l \in 1..MaxBurst}

Result(st) == IF st.err = "ok" THEN "nil" ELSE st.err

Init ==
    /\ \E td \in Trees(DstRoot), ts \in Trees(SrcRoot) :
          fs = [p \in AllPaths |-> IF p \in DOMAIN td THEN td[p] ELSE ts[p]]
    /\ pre = fs
    /\ res = "none"
    /\ log = << >>
    /\ del = FALSE
    /\ flt = NoFault
    /\ reads = 0
    /\ prevRes = "none"
    /\ prevDel = FALSE
    /\ eqval = "none"

Finish(r, dl, ft) ==
    /\ fs' = r.f
    /\ pre' = fs
    /\ res' = Result(r)
    /\ log' = r.lg
    /\ del' = dl
    /\ flt' = ft
    /\ reads' = r.rd
    /\ prevRes' = res
    /\ prevDel' = del
    /\ eqval' = eqval

\* err := fsync.Sync(dst, src); a session ends with the call a fault hits
CallSync ==
    /\ flt = NoFault
    /\ \E ft \in Faults(Sync(Start(fs, NoFault), DstRoot, SrcRoot).n) :
        Finish(Sync(Start(fs, ft), DstRoot, SrcRoot), FALSE, ft)

\* err := fsync.SyncDel(dst, src)
CallSyncDel ==
    /\ flt = NoFault
    /\ \E ft \in Faults(SyncDel(Start(fs, NoFault), DstRoot, SrcRoot).n) :
        Finish(SyncDel(Start(fs, ft), DstRoot, SrcRoot), TRUE, ft)

Next == CallSync \/ CallSyncDel

Spec == Init /\ [][Next]_vars

-----------------------------------------------------------------------------
(* The comparator on its own: equal(dst, src) on two files or missing paths *)

\* a file of l bytes, all 0 but a 1 at position k (k = 0: all 0)
Content(l, k) == [i \in 1..l |-> IF i = k THEN 1 ELSE 0]

\* lengths below, at and above the chunk size
Lens == {0, 1, BufSize - 1, BufSize, BufSize + 1, MaxLen}

Marks(l) == {0} \cup ({1, BufSize, BufSize + 1, l} \cap (1..l))

EqualInputs ==
    {None} \cup UNION {{File(Content(l, k), 448) : k \in Marks(l)} : l \in Lens}

InitEqual ==
    /\ \E x \in EqualInputs, y \in EqualInputs :
          fs = [p \in AllPaths |-> IF p = DstRoot THEN x
                                   ELSE IF p = SrcRoot THEN y ELSE None]
    /\ pre = fs
    /\ res = "none"
    /\ log = << >>
    /\ del = FALSE
    /\ flt = NoFault
    /\ reads = 0
    /\ prevRes = "none"
    /\ prevDel = FALSE
    /\ eqval = "none"

\* equal(dst, src)
CallEqual ==
    /\ eqval = "none"
    /\ \E ft \in Faults(equal(Start(fs, NoFault), DstRoot, SrcRoot).st.n) :
          LET r == equal(Start(fs, ft), DstRoot, SrcRoot)
          IN  /\ eqval' = IF r.st.err # "ok" THEN "panic"
                          ELSE IF r.val THEN "true" ELSE "false"
              /\ fs' = r.st.f
              /\ pre' = fs
              /\ log' = r.st.lg
              /\ flt' = ft
              /\ reads' = r.st.rd
              /\ UNCHANGED <<res, del, prevRes, prevDel>>

NextEqual == CallEqual

SpecEqual == InitEqual /\ [][NextEqual]_vars

-----------------------------------------------------------------------------
(* Properties *)

D(p) == DstRoot \o p

S(p) == SrcRoot \o p

Exists(f, p) == f[p].kind # "none"

Called == res # "none"

\* some operation of the last call failed
Failed == \E i \in 1..Len(log) : log[i].op = "FAIL"

\* no failure was injected into the last call
Clean == flt = NoFault

\* the last call changed nothing
NoMutation == \A i \in 1..Len(log) : log[i].op \notin Mutations

\* the last call issued operation o on path p
Did(o, p) == \E i \in 1..Len(log) : log[i].op = o /\ log[i].path = p

\* before the call, p lay below a destination path whose type conflicts with
\* the source's
BelowReplaced(p) ==
    \E q \in RelPaths :
        /\ IsPrefix(q, p) /\ q # p
        /\ Exists(pre, D(q)) /\ Exists(pre, S(q))
        /\ pre[D(q)].kind # pre[S(q)].kind

\* the top-level pair the guard rejects
GuardCase(f) ==
    f[DstRoot].kind = "dir" /\ Names(f, DstRoot) # {} /\ f[SrcRoot].kind = "file"

\* C1: when Sync or SyncDel returns nil, every path that exists under src
\* exists under dst with the same type, the same content if a file, and the
\* same permission bits; no created directory keeps the temporary mode
C1_Mirror ==
    res = "nil" =>
        \A p \in RelPaths :
            Exists(fs, S(p)) =>
                /\ fs[D(p)].kind = fs[S(p)].kind
                /\ fs[D(p)].data = fs[S(p)].data
                /\ fs[D(p)].perm = fs[S(p)].perm

C1_Witness ==
    /\ res = "nil"
    /\ \E p \in RelPaths :
          /\ p # << >>
          /\ Did("Mkdir", D(p))
          /\ fs[D(p)].kind = "dir"
          /\ fs[D(p)].perm # TmpDirPerm
    /\ \E p \in RelPaths : Did("Write", D(p)) /\ fs[D(p)].perm # CreatePerm

\* C2: when SyncDel returns nil, the relative paths under dst are exactly
\* the relative paths under src; an extraneous entry goes with its subtree
C2_NoExtraneous ==
    (res = "nil" /\ del) =>
        \A p \in RelPaths : Exists(fs, D(p)) <=> Exists(fs, S(p))

C2_Witness ==
    /\ res = "nil" /\ del
    /\ pre[D(<<"a">>)].kind = "dir"
    /\ Exists(pre, D(<<"a", "c">>))
    /\ ~Exists(pre, S(<<"a">>))
    /\ ~Exists(fs, D(<<"a">>))
    /\ ~Exists(fs, D(<<"a", "c">>))

\* C3: Sync leaves every destination entry that is absent from the source and
\* not below a replaced path as it was, and does not copy a file that is
\* already equal
C3_SyncKeeps ==
    (Called /\ ~del) =>
        /\ \A p \in RelPaths :
              (Exists(pre, D(p)) /\ ~Exists(pre, S(p)) /\ ~BelowReplaced(p))
                  => fs[D(p)] = pre[D(p)]
        /\ \A p \in RelPaths :
              (pre[D(p)].kind = "file" /\ pre[S(p)].kind = "file"
                    /\ pre[D(p)].data = pre[S(p)].data)
                  => /\ ~Did("Create", D(p)) /\ ~Did("Write", D(p))
                     /\ fs[D(p)].kind = "file"
                     /\ fs[D(p)].data = pre[D(p)].data

C3_Witness ==
    /\ res = "nil" /\ ~del
    /\ Exists(pre, D(<<"b">>)) /\ ~Exists(pre, S(<<"b">>))
    /\ fs[D(<<"b">>)] = pre[D(<<"b">>)]
    /\ pre[D(<<"a">>)].kind = "file" /\ pre[S(<<"a">>)].kind = "file"
    /\ pre[D(<<"a">>)].data = pre[S(<<"a">>)].data
    /\ ~NoMutation

\* C4: with a non-empty directory as top-level destination and a file as
\* top-level source, Sync and SyncDel return ErrFileOverDir and change
\* nothing
C4_Guard ==
    (Called /\ GuardCase(pre)) =>
        /\ fs = pre
        /\ NoMutation
        /\ Clean => res = ErrFileOverDir

C4_Witness ==
    /\ GuardCase(pre) /\ del /\ res = ErrFileOverDir
    /\ prevRes = ErrFileOverDir /\ ~prevDel

\* C5: a call that follows an identical call that returned nil returns nil,
\* copies, creates, removes and chmods nothing, and leaves dst as it was
C5_Idempotent ==
    (Called /\ prevRes = "nil" /\ prevDel = del /\ Clean) =>
        /\ res = "nil"
        /\ NoMutation
        /\ fs = pre

C5_Witness ==
    /\ prevRes = "nil" /\ prevDel = del /\ res = "nil"
    /\ fs[S(<<"a">>)].kind = "dir"
    /\ fs[S(<<"a", "c">>)].kind = "file"
    /\ fs[S(<<"b">>)].kind = "file"
    /\ Exists(fs, D(<<"a", "c">>))

\* C6: once an operation has failed, the call applies no further mutation
\* and returns a non-nil error
C6_AbortsImmediately ==
    Called =>
        /\ Failed => res # "nil"
        /\ \A i, j \in 1..Len(log) :
              (i < j /\ log[i].op = "FAIL") => log[j].op \notin Mutations

\* C7 as stated: after Sync returned the guard error, SyncDel on the same
\* paths does not return it and replaces the directory with the file
C7_SyncDelRecovers ==
    (prevRes = ErrFileOverDir /\ ~prevDel /\ del /\ Clean) =>
        /\ res # ErrFileOverDir
        /\ fs[DstRoot].kind = "file"

\* C7 amended: after Sync returned the guard error, SyncDel on the same paths
\* returns the same guard error and leaves the directory in place
C7_SyncDelAlsoGuarded ==
    (prevRes = ErrFileOverDir /\ ~prevDel /\ del /\ Clean) =>
        /\ res = ErrFileOverDir
        /\ fs[DstRoot] = pre[DstRoot]
        /\ Names(fs, DstRoot) = Names(pre, DstRoot)

C7_Witness ==
    /\ prevRes = ErrFileOverDir /\ ~prevDel /\ del /\ Clean
    /\ fs[DstRoot].kind = "dir" /\ fs[SrcRoot].kind = "file"

\* the directory at dst path p was replaced by the source's file
ReplacedByFile(p) ==
    /\ fs[D(p)].kind = "file"
    /\ fs[D(p)].data = pre[S(p)].data
    /\ \A q \in RelPaths : (IsPrefix(p, q) /\ q # p) => ~Exists(fs, D(q))

\* C8: a directory below the top level, or an empty top-level directory,
\* that is a file in the source is never refused with ErrFileOverDir; when
\* nothing fails it becomes the source's file and its entries are gone
C8_NestedUnguarded ==
    Called =>
        /\ (pre[D(<<"a">>)].kind = "dir" /\ pre[S(<<"a">>)].kind = "file") =>
              /\ res # ErrFileOverDir
              /\ Clean => (res = "nil" /\ ReplacedByFile(<<"a">>))
        /\ (pre[DstRoot].kind = "dir" /\ Names(pre, DstRoot) = {}
                /\ pre[SrcRoot].kind = "file") =>
              /\ res # ErrFileOverDir
              /\ Clean => (res = "nil" /\ ReplacedByFile(<< >>))

C8_Witness ==
    /\ pre[D(<<"a">>)].kind = "dir" /\ Exists(pre, D(<<"a", "c">>))
    /\ pre[S(<<"a">>)].kind = "file"
    /\ res = "nil" /\ ~del
    /\ ReplacedByFile(<<"a">>)

\* C9: no call creates, removes, writes or chmods a path at or under src
C9_SourceUntouched ==
    Called =>
        /\ \A p \in RelPaths : fs[S(p)] = pre[S(p)]
        /\ \A i \in 1..Len(log) :
              log[i].op \in Mutations => ~IsPrefix(SrcRoot, log[i].path)

C9_Witness ==
    /\ res = "nil"
    /\ \E p \in RelPaths : Did("Chmod", D(p))
    /\ \E p \in RelPaths : Did("Write", D(p))
    /\ \E p \in RelPaths : Did("RemoveAll", D(p))
    /\ \E p \in RelPaths : Did("Mkdir", D(p))

\* number of chunks equal reads from each file of length l before it stops
\* at position k of the first difference (k = 0: no difference)
ReadsUntil(l, k) ==
    IF k = 0 THEN 2 * (((l + BufSize - 1) \div BufSize) + 1)
    ELSE 2 * (((k - 1) \div BufSize) + 1)

FirstDiff(x, y) ==
    IF x = y THEN 0
    ELSE CHOOSE k \in 1..Len(x) :
            x[k] # y[k] /\ \A j \in 1..(k - 1) : x[j] = y[j]

\* C10: equal is true exactly when both files exist with identical bytes;
\* a missing file or different sizes give false, different sizes without a
\* read; it stops at the first differing chunk; a failed operation is a
\* panic, not a false
C10_Equal ==
    eqval # "none" =>
        LET a == pre[DstRoot]
            b == pre[SrcRoot]
            both == a.kind = "file" /\ b.kind = "file"
        IN  /\ ~Failed => (eqval = "true" <=> (both /\ a.data = b.data))
            /\ ~Failed => eqval # "panic"
            /\ ~both => (reads = 0 /\ (~Failed => eqval = "false"))
            /\ (both /\ Len(a.data) # Len(b.data)) => reads = 0
            /\ (both /\ Len(a.data) = Len(b.data) /\ ~Failed) =>
                  reads = ReadsUntil(Len(a.data), FirstDiff(a.data, b.data))
            /\ Failed => eqval = "panic"
            /\ fs = pre

C10_Witness ==
    /\ eqval = "false"
    /\ Len(pre[DstRoot].data) = MaxLen
    /\ Len(pre[SrcRoot].data) = MaxLen
    /\ FirstDiff(pre[DstRoot].data, pre[SrcRoot].data) > BufSize
    /\ reads = 4

====
